---- MODULE Spec2Model ----
(***************************************************************************)
(* Hospital-management web application (Flask + SQLAlchemy on SQLite).     *)
(*                                                                         *)
(* The store is the committed content of the six tables of                 *)
(* src/app/models.py.  Every request handler of src/app/routes.py is an    *)
(* action.  A handler that queries the store and later commits is modelled *)
(* twice: as one atomic action (requests served one after the other) and   *)
(* as two steps, the query and the write transaction, that interleave with *)
(* the steps of another client (requests served concurrently).  SQLite     *)
(* admits one write transaction at a time and shows readers committed rows *)
(* only, so a write transaction (first flush to commit or rollback) is one *)
(* step.                                                                   *)
(*                                                                         *)
(* Timestamps lie around the turn of the year 999 to the year 1000: the C  *)
(* library this build runs on renders '%Y' without padding ('999', then    *)
(* '1000'), and both years parse.  Free text that no handler branches on   *)
(* (full_name, specialization, reason, diagnosis, prescription, contact)   *)
(* is left out of the rows.                                                *)
(***************************************************************************)
EXTENDS Integers, Sequences, FiniteSets, TLC

VARIABLES
    users,          \* rows of table users
    patients,       \* rows of table patients
    doctors,        \* rows of table doctors
    departments,    \* rows of table departments
    appointments,   \* rows of table appointments
    treatments,     \* rows of table treatments
    session,        \* session[c]: user id the browser c is logged in as, 0 if none
    req,            \* req[c]: the request of browser c that is between its query and its write
    resp            \* outcome of the request served last

vars == <<users, patients, doctors, departments, appointments, treatments, session, req, resp>>

store == <<users, patients, doctors, departments, appointments, treatments>>

(***************************************************************************)
(* Bounds of the model.                                                    *)
(***************************************************************************)
MaxTick == 2            \* wall-clock instants are 0..MaxTick
TicksPerMinute == 2     \* an instant is a minute and a position within it
TicksBefore1000 == 1    \* the instants below it lie in the year 999, the others in 1000
MaxUsers == 3           \* rows of users the identity operations fill
MaxAppointments == 2    \* rows of appointments
MaxTreatments == 2      \* rows of treatments

Clients == {"c1", "c2"}
Ticks == 0..MaxTick
Fracs == {0, 1}                 \* sub-second part of an instant: none, or some
TzOffsets == {0, 1}             \* UTC offsets an ISO string may carry, in ticks
Methods == {"GET", "POST"}

(***************************************************************************)
(* Timestamps: the text a form carries, the datetime it parses to, and the *)
(* text that is stored.                                                    *)
(***************************************************************************)

\* The text of a form field.  fmt "iso" holds a 'T' (datetime.fromisoformat:
\* optional fractional seconds and UTC offset), "sec" is '%Y-%m-%d %H:%M:%S',
\* "min" is '%Y-%m-%d %H:%M' (no seconds: the first instant of a minute),
\* "bad" matches no format and "empty" is the empty field.
DtText(fmt, wall, frac, aware, off) ==
    [fmt |-> fmt, wall |-> wall, frac |-> frac, aware |-> aware, off |-> off]

IsoTexts ==
    {DtText("iso", w, f, FALSE, 0) : w \in Ticks, f \in Fracs}
    \cup {DtText("iso", MaxTick, 0, TRUE, o) : o \in TzOffsets}

PlainTexts ==
    {DtText("sec", w, 0, FALSE, 0) : w \in Ticks}
    \cup {DtText("min", w, 0, FALSE, 0) : w \in {t \in Ticks : t % TicksPerMinute = 0}}

JunkTexts == {DtText("bad", 0, 0, FALSE, 0), DtText("empty", 0, 0, FALSE, 0)}

DtTexts == IsoTexts \cup PlainTexts \cup JunkTexts

\* A datetime object, or None (ok = FALSE).
None == [ok |-> FALSE, wall |-> 0, frac |-> 0, aware |-> FALSE, off |-> 0]

Datetime(wall, frac, aware, off) ==
    [ok |-> TRUE, wall |-> wall, frac |-> frac, aware |-> aware, off |-> off]

parse_datetime(dt_str) ==
    IF dt_str.fmt = "iso"
    THEN Datetime(dt_str.wall, dt_str.frac, dt_str.aware, dt_str.off)
    ELSE IF dt_str.fmt \in {"sec", "min"}
    THEN Datetime(dt_str.wall, 0, FALSE, 0)
    ELSE None

\* The instant a datetime denotes, in units of half a tick: an aware datetime
\* is compared by its UTC instant, a naive one by its wall clock.
Instant(dt) == (dt.wall - dt.off) * Cardinality(Fracs) + dt.frac

\* Python raises TypeError when a naive datetime is compared with an aware one.
Comparable(x, y) == x.aware = y.aware

DtLeq(x, y) == Instant(x) <= Instant(y)

\* '%Y' as rendered: the digits of the year, three for 999 and four for 1000.
YearText(wall) == IF wall < TicksBefore1000 THEN <<9, 9, 9>> ELSE <<1, 0, 0, 0>>

\* strftime('%Y-%m-%d %H:%M:%S'): the wall clock to the second, as the digits
\* of the year followed by fixed-width fields; the fraction and the offset
\* are not rendered.
strftime(dt) ==
    YearText(dt.wall) \o <<dt.wall \div TicksPerMinute, dt.wall % TicksPerMinute>>

\* Comparison of two stored texts as the database compares strings: character
\* by character from the left.
RECURSIVE StrLess(_, _)
StrLess(s, t) ==
    IF s = <<>> THEN t # <<>>
    ELSE IF t = <<>> THEN FALSE
    ELSE IF Head(s) # Head(t) THEN Head(s) < Head(t)
    ELSE StrLess(Tail(s), Tail(t))

StrLeq(s, t) == s = t \/ StrLess(s, t)

\* The wall-clock instant a stored text denotes.
StoredTick(s) == s[Len(s) - 1] * TicksPerMinute + s[Len(s)]

(***************************************************************************)
(* Identities.                                                             *)
(***************************************************************************)
Passwords == {"pw1", "pw2"}

\* werkzeug generate_password_hash / check_password_hash.
generate_password_hash(password) == <<"hash", password>>

check_password(user, password) == user.password_hash = generate_password_hash(password)

\* wtforms Email(): the text has the shape of an address.
EmailShaped == {"admin@example.com", "a@x", "b@x", "c@x"}

NextId(rows) == Cardinality(rows) + 1

UserRow(id, username, email, password, role) ==
    [id |-> id, username |-> username, email |-> email,
     password_hash |-> generate_password_hash(password), role |-> role]

\* User.query.filter((User.username == username) | (User.email == email)).first()
UserExists(username, email) ==
    \E u \in users : u.username = username \/ u.email = email

\* Mutant: users.email carries no unique constraint.
UniqueViolationUsernameOnly(username, email) ==
    \E u \in users : u.username = username

\* The unique constraints of users.username and users.email, raised at flush.
UniqueViolation(username, email) ==
    \E u \in users : u.username = username \/ u.email = email

current_user(c) == CHOOSE u \in users : u.id = session[c]

Authenticated(c) == \E u \in users : u.id = session[c]

Role(c) == IF Authenticated(c) THEN current_user(c).role ELSE "anonymous"

NoReq ==
    [op |-> "none", username |-> "", email |-> "", password |-> "", department |-> "",
     patient_id |-> 0, doctor_id |-> 0, start |-> <<>>, end |-> <<>>]

Idle(c) == req[c].op = "none"

DefaultDepartments ==
    <<"General", "Cardiology", "Orthopedics", "ENT", "Dermatology", "Neurology", "Pediatrics">>

\* The database after `create_db.py --init`: the default departments and one
\* admin (the utility's default username and email).
Init ==
    /\ users = {UserRow(1, "admin", "admin@example.com", "pw1", "admin")}
    /\ patients = {}
    /\ doctors = {}
    /\ departments = {[id |-> i, name |-> DefaultDepartments[i]] : i \in DOMAIN DefaultDepartments}
    /\ appointments = {}
    /\ treatments = {}
    /\ session = [c \in Clients |-> 0]
    /\ req = [c \in Clients |-> NoReq]
    /\ resp = "none"

(***************************************************************************)
(* Login and logout.                                                       *)
(***************************************************************************)
doctor_profile(u) == {d \in doctors : d.user_id = u.id}

patient_profile(u) == {p \in patients : p.user_id = u.id}

\* What login answers once the query has returned the row u.
LoginResult(u, password) ==
    IF ~check_password(u, password) THEN "invalid"
    ELSE IF u.role = "doctor"
    THEN IF doctor_profile(u) = {} THEN "no_profile"
         ELSE LET doc == CHOOSE d \in doctor_profile(u) : TRUE IN
              IF ~doc.is_approved THEN "pending"
              ELSE IF ~doc.is_active THEN "deactivated"
              ELSE "logged_in"
    ELSE "logged_in"

\* The rows the login query matches; .first() returns one of them, and the
\* query has no ORDER BY.
LoginMatches(identifier) ==
    {u \in users : u.username = identifier \/ u.email = identifier}

\* The answers login may give, each with the user it would log in (0: none).
LoginOutcomes(identifier, password) ==
    IF identifier = "" \/ password = ""
    THEN {[answer |-> "form_invalid", user_id |-> 0]}
    ELSE IF LoginMatches(identifier) = {}
    THEN {[answer |-> "invalid", user_id |-> 0]}
    ELSE {[answer |-> LoginResult(u, password),
           user_id |-> IF LoginResult(u, password) = "logged_in" THEN u.id ELSE 0] :
             u \in LoginMatches(identifier)}

Login(c, identifier, password) ==
    /\ Idle(c)
    /\ \E o \in LoginOutcomes(identifier, password) :
          /\ resp' = o.answer
          /\ session' = IF o.answer = "logged_in"
                        THEN [session EXCEPT ![c] = o.user_id]
                        ELSE session
    /\ UNCHANGED <<store, req>>

Logout(c) ==
    /\ Idle(c)
    /\ IF Authenticated(c)
       THEN resp' = "logged_out" /\ session' = [session EXCEPT ![c] = 0]
       ELSE resp' = "login_required" /\ UNCHANGED session
    /\ UNCHANGED <<store, req>>

(***************************************************************************)
(* Patient registration.                                                   *)
(***************************************************************************)
\* RegisterForm / AddDoctorForm: DataRequired on each field, Email() on email.
IdentityFormValid(username, email, password) ==
    username # "" /\ password # "" /\ email \in EmailShaped

\* Mutant: a failure after the flush of the User row leaves that row committed.
RegisterTransactionNoRollback(username, email, password) ==
    \/ /\ ~UniqueViolation(username, email)
       /\ Cardinality(users) < MaxUsers
       /\ users' = users \cup {UserRow(NextId(users), username, email, password, "patient")}
       /\ patients' = patients \cup {[id |-> NextId(patients), user_id |-> NextId(users)]}
       /\ resp' = "registered"
       /\ UNCHANGED <<doctors, departments, appointments, treatments>>
    \/ /\ ~UniqueViolation(username, email)
       /\ Cardinality(users) < MaxUsers
       /\ users' = users \cup {UserRow(NextId(users), username, email, password, "patient")}
       /\ resp' = "error"
       /\ UNCHANGED <<patients, doctors, departments, appointments, treatments>>

\* The write transaction of register: the User row, flush, the Patient row,
\* commit; any exception rolls the whole transaction back.
RegisterTransaction(username, email, password) ==
    \/ /\ ~UniqueViolation(username, email)
       /\ Cardinality(users) < MaxUsers
       /\ users' = users \cup {UserRow(NextId(users), username, email, password, "patient")}
       /\ patients' = patients \cup {[id |-> NextId(patients), user_id |-> NextId(users)]}
       /\ resp' = "registered"
       /\ UNCHANGED <<doctors, departments, appointments, treatments>>
    \/ /\ resp' = "error"
       /\ UNCHANGED store

\* What register decides before its try block: "write" is to go on to it.
RegisterOutcome(username, email, password) ==
    IF ~IdentityFormValid(username, email, password) THEN "form_invalid"
    ELSE IF UserExists(username, email) THEN "exists"
    ELSE "write"

\* register, served without interleaving.
Register(c, username, email, password) ==
    /\ Idle(c)
    /\ IF RegisterOutcome(username, email, password) = "write"
       THEN RegisterTransaction(username, email, password)
       ELSE resp' = RegisterOutcome(username, email, password) /\ UNCHANGED store
    /\ UNCHANGED <<session, req>>

\* register up to its uniqueness query.
RegisterQuery(c, username, email, password) ==
    /\ Idle(c)
    /\ IF RegisterOutcome(username, email, password) = "write"
       THEN /\ req' = [req EXCEPT ![c] = [NoReq EXCEPT !.op = "register",
                           !.username = username, !.email = email, !.password = password]]
            /\ UNCHANGED resp
       ELSE resp' = RegisterOutcome(username, email, password) /\ UNCHANGED req
    /\ UNCHANGED <<store, session>>

\* register from its try block on.
RegisterWrite(c) ==
    /\ req[c].op = "register"
    /\ RegisterTransaction(req[c].username, req[c].email, req[c].password)
    /\ req' = [req EXCEPT ![c] = NoReq]
    /\ UNCHANGED session

(***************************************************************************)
(* Doctor provisioning.                                                    *)
(***************************************************************************)
\* Department.query.filter_by(name=department_name).first()
DepartmentNamed(name) == {d \in departments : d.name = name}

\* The id of the department a new doctor refers to: 0 (NULL) without a name.
DepartmentIdFor(name) ==
    IF name = "" THEN 0
    ELSE IF DepartmentNamed(name) # {} THEN (CHOOSE d \in DepartmentNamed(name) : TRUE).id
    ELSE NextId(departments)

\* The write transaction of add_doctor: the User row, flush, the Department
\* row when the name is new, the Doctor row, commit; rollback on any exception.
AddDoctorTransaction(username, email, password, department_name) ==
    \/ /\ ~UniqueViolation(username, email)
       /\ Cardinality(users) < MaxUsers
       /\ users' = users \cup {UserRow(NextId(users), username, email, password, "doctor")}
       /\ departments' = IF department_name # "" /\ DepartmentNamed(department_name) = {}
                         THEN departments \cup {[id |-> NextId(departments), name |-> department_name]}
                         ELSE departments
       /\ doctors' = doctors \cup {[id |-> NextId(doctors), user_id |-> NextId(users),
                                    department_id |-> DepartmentIdFor(department_name),
                                    is_active |-> TRUE, is_approved |-> TRUE]}
       /\ resp' = "doctor_added"
       /\ UNCHANGED <<patients, appointments, treatments>>
    \/ /\ resp' = "error"
       /\ UNCHANGED store

\* Mutant: the role test is missing.
AddDoctorGateAnyRole(c) ==
    IF ~Authenticated(c) THEN "login_required"
    ELSE "ok"

\* @login_required and the role test.
AddDoctorGate(c) ==
    IF ~Authenticated(c) THEN "login_required"
    ELSE IF Role(c) # "admin" THEN "denied"
    ELSE "ok"

\* What add_doctor decides before its try block: "write" is to go on to it.
AddDoctorOutcome(c, username, email, password) ==
    IF AddDoctorGate(c) # "ok" THEN AddDoctorGate(c)
    ELSE IF ~IdentityFormValid(username, email, password) THEN "form_invalid"
    ELSE IF UserExists(username, email) THEN "exists"
    ELSE "write"

\* add_doctor, served without interleaving.
AddDoctor(c, username, email, password, department_name) ==
    /\ Idle(c)
    /\ IF AddDoctorOutcome(c, username, email, password) = "write"
       THEN AddDoctorTransaction(username, email, password, department_name)
       ELSE resp' = AddDoctorOutcome(c, username, email, password) /\ UNCHANGED store
    /\ UNCHANGED <<session, req>>

\* add_doctor up to its uniqueness query.
AddDoctorQuery(c, username, email, password, department_name) ==
    /\ Idle(c)
    /\ IF AddDoctorOutcome(c, username, email, password) = "write"
       THEN /\ req' = [req EXCEPT ![c] = [NoReq EXCEPT !.op = "add_doctor",
                           !.username = username, !.email = email, !.password = password,
                           !.department = department_name]]
            /\ UNCHANGED resp
       ELSE resp' = AddDoctorOutcome(c, username, email, password) /\ UNCHANGED req
    /\ UNCHANGED <<store, session>>

\* add_doctor from its try block on.
AddDoctorWrite(c) ==
    /\ req[c].op = "add_doctor"
    /\ AddDoctorTransaction(req[c].username, req[c].email, req[c].password, req[c].department)
    /\ req' = [req EXCEPT ![c] = NoReq]
    /\ UNCHANGED session

\* An administrator sets a doctor's is_approved or is_active flag.  No route
\* does; the data model names the flags as administrator-set.
SetDoctorFlags(doc, approved, active) ==
    /\ doc \in doctors
    /\ doctors' = (doctors \ {doc}) \cup {[doc EXCEPT !.is_approved = approved, !.is_active = active]}
    /\ UNCHANGED <<users, patients, departments, appointments, treatments, session, req, resp>>

(***************************************************************************)
(* Slot booking.                                                           *)
(***************************************************************************)
\* @login_required, the role test and Doctor.query.get_or_404(doctor_id).
BookGate(c, doctor_id) ==
    IF ~Authenticated(c) THEN "login_required"
    ELSE IF Role(c) # "patient" THEN "denied"
    ELSE IF ~\E d \in doctors : d.id = doctor_id THEN "not_found"
    ELSE "ok"

\* Mutant: the range test is end_dt < start_dt, so an empty range passes.
BookValidationStrict(method, start, end) ==
    IF method # "POST" \/ start.fmt = "empty" \/ end.fmt = "empty" THEN "form"
    ELSE IF ~parse_datetime(start).ok \/ ~parse_datetime(end).ok THEN "invalid_range"
    ELSE IF ~Comparable(parse_datetime(end), parse_datetime(start)) THEN "error500"
    ELSE IF Instant(parse_datetime(end)) < Instant(parse_datetime(start)) THEN "invalid_range"
    ELSE "ok"

\* form.validate_on_submit() and the test of the parsed time range.
BookValidation(method, start, end) ==
    IF method # "POST" \/ start.fmt = "empty" \/ end.fmt = "empty" THEN "form"
    ELSE IF ~parse_datetime(start).ok \/ ~parse_datetime(end).ok THEN "invalid_range"
    ELSE IF ~Comparable(parse_datetime(end), parse_datetime(start)) THEN "error500"
    ELSE IF DtLeq(parse_datetime(end), parse_datetime(start)) THEN "invalid_range"
    ELSE "ok"

\* Mutant: the query does not filter on the status.
ConflictAnyStatus(doctor_id, start_str, end_str) ==
    \E a \in appointments :
        /\ a.doctor_id = doctor_id
        /\ ~(StrLeq(a.end_datetime, start_str) \/ StrLeq(end_str, a.start_datetime))

\* The conflict query: a Booked appointment of the doctor that neither ends by
\* start_str nor starts at or after end_str.
Conflict(doctor_id, start_str, end_str) ==
    \E a \in appointments :
        /\ a.doctor_id = doctor_id
        /\ a.status = "Booked"
        /\ ~(StrLeq(a.end_datetime, start_str) \/ StrLeq(end_str, a.start_datetime))

AppointmentRow(patient_id, doctor_id, start_str, end_str) ==
    [id |-> NextId(appointments), patient_id |-> patient_id, doctor_id |-> doctor_id,
     start_datetime |-> start_str, end_datetime |-> end_str, status |-> "Booked"]

\* db.session.add(appointment); db.session.commit()
InsertAppointment(patient_id, doctor_id, start_str, end_str) ==
    /\ Cardinality(appointments) < MaxAppointments
    /\ appointments' = appointments \cup {AppointmentRow(patient_id, doctor_id, start_str, end_str)}
    /\ resp' = "booked"
    /\ UNCHANGED <<users, patients, doctors, departments, treatments>>

PatientId(c) == (CHOOSE p \in patient_profile(current_user(c)) : TRUE).id

\* What book_appointment answers: "booked" is to insert the appointment.
BookOutcome(c, doctor_id, method, start, end) ==
    IF BookGate(c, doctor_id) # "ok" THEN BookGate(c, doctor_id)
    ELSE IF BookValidation(method, start, end) # "ok" THEN BookValidation(method, start, end)
    ELSE IF Conflict(doctor_id, strftime(parse_datetime(start)), strftime(parse_datetime(end)))
    THEN "conflict"
    ELSE "booked"

\* book_appointment, served without interleaving.
BookAppointment(c, doctor_id, method, start, end) ==
    /\ Idle(c)
    /\ IF BookOutcome(c, doctor_id, method, start, end) = "booked"
       THEN InsertAppointment(PatientId(c), doctor_id,
                strftime(parse_datetime(start)), strftime(parse_datetime(end)))
       ELSE resp' = BookOutcome(c, doctor_id, method, start, end) /\ UNCHANGED store
    /\ UNCHANGED <<session, req>>

\* book_appointment up to its conflict query.
BookQuery(c, doctor_id, method, start, end) ==
    /\ Idle(c)
    /\ IF BookOutcome(c, doctor_id, method, start, end) = "booked"
       THEN /\ req' = [req EXCEPT ![c] = [NoReq EXCEPT !.op = "book",
                           !.patient_id = PatientId(c), !.doctor_id = doctor_id,
                           !.start = strftime(parse_datetime(start)),
                           !.end = strftime(parse_datetime(end))]]
            /\ UNCHANGED resp
       ELSE resp' = BookOutcome(c, doctor_id, method, start, end) /\ UNCHANGED req
    /\ UNCHANGED <<store, session>>

\* book_appointment from the insert on.
BookInsert(c) ==
    /\ req[c].op = "book"
    /\ InsertAppointment(req[c].patient_id, req[c].doctor_id, req[c].start, req[c].end)
    /\ req' = [req EXCEPT ![c] = NoReq]
    /\ UNCHANGED session

(***************************************************************************)
(* Appointment completion.                                                 *)
(***************************************************************************)
AppointmentWithId(appointment_id) == {a \in appointments : a.id = appointment_id}

DoctorId(c) == (CHOOSE d \in doctor_profile(current_user(c)) : TRUE).id

\* Mutant: the ownership test is missing.
CompleteGateNoOwner(c, appointment_id) ==
    IF ~Authenticated(c) THEN "login_required"
    ELSE IF Role(c) # "doctor" THEN "denied"
    ELSE IF AppointmentWithId(appointment_id) = {} THEN "not_found"
    ELSE "ok"

\* @login_required, the role test, Appointment.query.get_or_404 and the
\* ownership test.
CompleteGate(c, appointment_id) ==
    IF ~Authenticated(c) THEN "login_required"
    ELSE IF Role(c) # "doctor" THEN "denied"
    ELSE IF AppointmentWithId(appointment_id) = {} THEN "not_found"
    ELSE IF (CHOOSE a \in AppointmentWithId(appointment_id) : TRUE).doctor_id # DoctorId(c)
    THEN "unauthorized"
    ELSE "ok"

\* The POST branch: the status, the Treatment row, one commit.
CompleteWrite(appt) ==
    /\ Cardinality(treatments) < MaxTreatments
    /\ appointments' = (appointments \ {appt}) \cup {[appt EXCEPT !.status = "Completed"]}
    /\ treatments' = treatments \cup {[id |-> NextId(treatments), appointment_id |-> appt.id]}
    /\ resp' = "completed"
    /\ UNCHANGED <<users, patients, doctors, departments>>

\* Mutant: the write is not reserved to POST.
CompleteOutcomeAnyMethod(c, appointment_id, method) ==
    IF CompleteGate(c, appointment_id) # "ok" THEN CompleteGate(c, appointment_id)
    ELSE "completed"

\* What complete_appointment answers: "completed" is to write.
CompleteOutcome(c, appointment_id, method) ==
    IF CompleteGate(c, appointment_id) # "ok" THEN CompleteGate(c, appointment_id)
    ELSE IF method # "POST" THEN "form"
    ELSE "completed"

CompleteAppointment(c, appointment_id, method) ==
    /\ Idle(c)
    /\ IF CompleteOutcome(c, appointment_id, method) = "completed"
       THEN CompleteWrite(CHOOSE a \in AppointmentWithId(appointment_id) : TRUE)
       ELSE resp' = CompleteOutcome(c, appointment_id, method) /\ UNCHANGED store
    /\ UNCHANGED <<session, req>>

(***************************************************************************)
(* Inputs and specifications.                                              *)
(***************************************************************************)
Usernames == {"", "u1", "a@x"}
Emails == {"u1", "a@x", "b@x"}
Identifiers == {"", "admin", "u1", "a@x", "b@x"}
PasswordTexts == Passwords \cup {""}
DepartmentNames == {"", "General", "Oncology"}

ClinicIdentifiers == {"doc1", "doc2", "pat1"}
DoctorIds == {d.id : d \in doctors} \cup {NextId(doctors)}
AppointmentIds == 1..(MaxAppointments + 1)
SecTexts == {DtText("sec", w, 0, FALSE, 0) : w \in Ticks}


\* The browser that issues the requests served one after the other.
Browser == "c1"

\* A request that its gate turns away is turned away whatever its form holds:
\* the form's texts are enumerated for the requests that pass the gate.
NoText == DtText("empty", 0, 0, FALSE, 0)
Admins == {c \in Clients : AddDoctorGate(c) = "ok"}
Bookable(c) == {d \in DoctorIds : BookGate(c, d) = "ok"}
Unbookable(c) == {d \in DoctorIds : BookGate(c, d) # "ok"}

\* Registration, provisioning, login and the flags, each request served
\* without interleaving.
NextAuth ==
    \/ \E i \in Identifiers, p \in PasswordTexts : Login(Browser, i, p)
    \/ Logout(Browser)
    \/ \E u \in Usernames, e \in Emails, p \in PasswordTexts : Register(Browser, u, e, p)
    \/ \E c \in Admins \cap {Browser}, u \in Usernames, e \in Emails, p \in PasswordTexts,
          d \in DepartmentNames : AddDoctor(c, u, e, p, d)
    \/ \E c \in {Browser} \ Admins : AddDoctor(c, "", "", "", "")
    \/ \E doc \in doctors, a \in BOOLEAN, b \in BOOLEAN : SetDoctorFlags(doc, a, b)

SpecAuth == Init /\ [][NextAuth]_vars

\* Registration and provisioning served concurrently: the uniqueness query
\* and the write transaction of a request are separate steps.
NextIdentity ==
    \/ \E c \in Clients : Login(c, "admin", "pw1")
    \/ \E c \in Clients : Logout(c)
    \/ \E c \in Clients, u \in Usernames, e \in Emails : RegisterQuery(c, u, e, "pw1")
    \/ \E c \in Clients : RegisterWrite(c)
    \/ \E c \in Admins, u \in Usernames, e \in Emails, d \in DepartmentNames :
          AddDoctorQuery(c, u, e, "pw1", d)
    \/ \E c \in Clients \ Admins : AddDoctorQuery(c, "", "", "", "")
    \/ \E c \in Clients : AddDoctorWrite(c)

SpecIdentity == Init /\ [][NextIdentity]_vars

\* A clinic in service: the admin has provisioned two doctors and one patient
\* has registered; nobody is logged in.
InitClinic ==
    /\ users = {UserRow(1, "admin", "admin@example.com", "pw1", "admin"),
                UserRow(2, "doc1", "d1@x", "pw1", "doctor"),
                UserRow(3, "doc2", "d2@x", "pw1", "doctor"),
                UserRow(4, "pat1", "p1@x", "pw1", "patient")}
    /\ patients = {[id |-> 1, user_id |-> 4]}
    /\ doctors = {[id |-> 1, user_id |-> 2, department_id |-> 1, is_active |-> TRUE, is_approved |-> TRUE],
                  [id |-> 2, user_id |-> 3, department_id |-> 0, is_active |-> TRUE, is_approved |-> TRUE]}
    /\ departments = {[id |-> i, name |-> DefaultDepartments[i]] : i \in DOMAIN DefaultDepartments}
    /\ appointments = {}
    /\ treatments = {}
    /\ session = [c \in Clients |-> 0]
    /\ req = [c \in Clients |-> NoReq]
    /\ resp = "none"

\* Booking and completion, and add_doctor as asked by a caller who is no admin,
\* each request served without interleaving.
NextSeq ==
    \/ \E i \in ClinicIdentifiers : Login(Browser, i, "pw1")
    \/ Logout(Browser)
    \/ \E d \in Bookable(Browser), s \in DtTexts, e \in DtTexts :
          BookAppointment(Browser, d, "POST", s, e)
    \/ \E d \in Unbookable(Browser) : BookAppointment(Browser, d, "POST", NoText, NoText)
    \/ \E d \in DoctorIds : BookAppointment(Browser, d, "GET", NoText, NoText)
    \/ \E a \in AppointmentIds, m \in Methods : CompleteAppointment(Browser, a, m)
    \/ \E c \in {Browser} \ Admins : AddDoctor(c, "", "", "", "")

SpecSeq == InitClinic /\ [][NextSeq]_vars

\* Booking served concurrently: the conflict query and the insert of a
\* request are separate steps.
Next ==
    \/ \E c \in Clients, i \in ClinicIdentifiers : Login(c, i, "pw1")
    \/ \E c \in Clients : Logout(c)
    \/ \E c \in Clients : \E d \in Bookable(c), s \in SecTexts, e \in SecTexts :
          BookQuery(c, d, "POST", s, e)
    \/ \E c \in Clients : \E d \in Unbookable(c) : BookQuery(c, d, "POST", NoText, NoText)
    \/ \E c \in Clients : BookInsert(c)
    \/ \E c \in Clients, a \in AppointmentIds, m \in Methods : CompleteAppointment(c, a, m)

Spec == InitClinic /\ [][Next]_vars

(***************************************************************************)
(* Properties.                                                             *)
(***************************************************************************)
Booked(a) == a.status = "Booked"

\* Two stored intervals [start, end) overlap, read as wall-clock instants.
Overlap(a, b) ==
    /\ StoredTick(a.start_datetime) < StoredTick(b.end_datetime)
    /\ StoredTick(b.start_datetime) < StoredTick(a.end_datetime)

\* C1: with requests served one after the other, no doctor has two Booked
\* appointments whose intervals [start, end) overlap.
C1_NoOverlappingBooked ==
    \A a \in appointments, b \in appointments :
        (a.id # b.id /\ a.doctor_id = b.doctor_id /\ Booked(a) /\ Booked(b)) => ~Overlap(a, b)

\* C2: with the conflict query and the insert of two bookings interleaved, the
\* race is closed: no state holds two Booked appointments of one doctor that
\* the conflict query, which compares the stored texts, would find in
\* conflict with each other.
C2_NoDoubleBooking ==
    ~\E a \in appointments, b \in appointments :
        /\ a.id # b.id /\ a.doctor_id = b.doctor_id /\ Booked(a) /\ Booked(b)
        /\ StrLess(a.start_datetime, b.end_datetime)
        /\ StrLess(b.start_datetime, a.end_datetime)

\* The instant a stored text denotes, in the unit of Instant.
StoredInstant(s) == StoredTick(s) * Cardinality(Fracs)

\* A Booked appointment [c, d) of the doctor with a < d and c < b.
OverlapsBooked(doctor_id, a, b) ==
    \E x \in appointments :
        /\ x.doctor_id = doctor_id /\ Booked(x)
        /\ Instant(a) < StoredInstant(x.end_datetime)
        /\ StoredInstant(x.start_datetime) < Instant(b)

\* Pairs of form texts that parse to naive datetimes a < b.
ProperPairs ==
    {p \in DtTexts \X DtTexts :
        /\ parse_datetime(p[1]).ok /\ parse_datetime(p[2]).ok
        /\ ~parse_datetime(p[1]).aware /\ ~parse_datetime(p[2]).aware
        /\ Instant(parse_datetime(p[1])) < Instant(parse_datetime(p[2]))}

\* C3: for a patient and a parseable interval [a, b) with a < b, the booking
\* adds exactly one Booked appointment of the doctor iff no Booked appointment
\* [c, d) of the doctor has a < d and c < b; otherwise it is rejected as a
\* conflict and the appointments stay as they are.
C3_AcceptIffNoOverlap ==
    /\ [](\A d \in Bookable(Browser) : \A p \in ProperPairs :
            BookOutcome(Browser, d, "POST", p[1], p[2]) =
               IF OverlapsBooked(d, parse_datetime(p[1]), parse_datetime(p[2]))
               THEN "conflict" ELSE "booked")
    /\ [][/\ resp' = "conflict" => appointments' = appointments
          /\ (resp' = "booked" /\ appointments' # appointments) =>
                \E row \in appointments' \ appointments :
                   appointments' = appointments \cup {row} /\ Booked(row)]_vars

\* Pairs of form texts of which one does not parse, or that parse to b <= a.
BadPairs ==
    {p \in DtTexts \X DtTexts :
        \/ ~parse_datetime(p[1]).ok
        \/ ~parse_datetime(p[2]).ok
        \/ /\ parse_datetime(p[1]).aware = parse_datetime(p[2]).aware
           /\ Instant(parse_datetime(p[2])) <= Instant(parse_datetime(p[1]))}

\* C4: a booking whose start or end does not parse, or whose end is not later
\* than its start, is answered as a validation error (the range message, or
\* the form again for an empty field), and that answer leaves the store as it
\* is.
C4_BadRangeRejected ==
    /\ [](\A d \in Bookable(Browser) : \A p \in BadPairs :
            BookOutcome(Browser, d, "POST", p[1], p[2]) \in {"invalid_range", "form"})
    /\ [][resp' \in {"invalid_range", "form"} => store' = store]_vars

\* A patient's booking has just been turned away for its time range.
C4_Witness == resp = "invalid_range" /\ Role(Browser) = "patient"

Taken(username, email) == \E u \in users : u.username = username \/ u.email = email

UniqueIdentities ==
    \A u \in users, v \in users :
        (u.username = v.username \/ u.email = v.email) => u = v

\* C5: a registration or provisioning request whose username or email is
\* taken, at its query or by the time it writes, fails and leaves every table
\* as it is; no two identities ever share a username or an email.
C5_DuplicateRejected ==
    /\ [](/\ UniqueIdentities
          /\ \A u \in Usernames, e \in Emails :
                (IdentityFormValid(u, e, "pw1") /\ Taken(u, e)) =>
                   /\ RegisterOutcome(u, e, "pw1") = "exists"
                   /\ \A c \in Admins : AddDoctorOutcome(c, u, e, "pw1") = "exists")
    /\ [][/\ resp' \in {"exists", "error"} => store' = store
          /\ \A c \in Clients :
                (Taken(req[c].username, req[c].email) /\ (RegisterWrite(c) \/ AddDoctorWrite(c)))
                   => (resp' = "error" /\ store' = store)]_vars

\* A request passed its uniqueness query and, before it writes, another
\* request has taken its username or email.
C5_Witness ==
    \E c \in Clients : req[c].op \in {"register", "add_doctor"} /\ Taken(req[c].username, req[c].email)

OneProfilePerIdentity ==
    \A u \in users :
        /\ u.role = "patient" =>
              Cardinality({p \in patients : p.user_id = u.id}) = 1
        /\ u.role = "doctor" =>
              Cardinality({d \in doctors : d.user_id = u.id}) = 1

AddsUserWithProfile(role, profiles, profilesAfter) ==
    \E u \in users' \ users : \E p \in profilesAfter \ profiles :
        /\ users' = users \cup {u}
        /\ profilesAfter = profiles \cup {p}
        /\ u.role = role
        /\ p.user_id = u.id

\* C6: in every committed state each patient identity has exactly one Patient
\* row and each doctor identity exactly one Doctor row; a write transaction
\* of register adds one User and its Patient, one of add_doctor one User and
\* its Doctor, or the transaction leaves every table as it was.
C6_ProfilesAtomic ==
    [][/\ OneProfilePerIdentity'
       /\ \A c \in Clients :
            /\ RegisterWrite(c) =>
                  \/ store' = store
                  \/ AddsUserWithProfile("patient", patients, patients') /\ doctors' = doctors
            /\ AddDoctorWrite(c) =>
                  \/ store' = store
                  \/ AddsUserWithProfile("doctor", doctors, doctors') /\ patients' = patients]_vars

\* A patient and a doctor are on file and the last write transaction failed.
C6_Witness ==
    /\ resp = "error"
    /\ \E u \in users : u.role = "patient"
    /\ \E u \in users : u.role = "doctor"

\* C7: a doctor who logs in with the own username or email and the own
\* password gets a session exactly when the Doctor profile is approved and
\* active: not approved, the login is rejected and no session is set up;
\* approved and active, it succeeds.
C7_DoctorLoginGate ==
    \A u \in users : \A i \in {u.username, u.email}, p \in Passwords :
        (u.role = "doctor" /\ check_password(u, p)) =>
           \A doc \in doctor_profile(u) : \A o \in LoginOutcomes(i, p) :
              /\ (doc.is_approved /\ doc.is_active) =>
                    (o.answer = "logged_in" /\ o.user_id = u.id)
              /\ ~doc.is_approved => o.answer # "logged_in"

\* C8: every login identifier matches at most one identity.
C8_OneMatchPerIdentifier ==
    \A i \in Identifiers \ {""} : Cardinality(LoginMatches(i)) <= 1

\* C9: a doctor who completes an appointment of another doctor is answered
\* "unauthorized", an answer other than the "not_found" of an appointment id
\* that does not exist, and the appointments and treatments stay as they are.
C9_ForeignAppointmentRefused ==
    /\ [](Role(Browser) = "doctor" =>
            \A a \in AppointmentIds, m \in Methods :
               /\ AppointmentWithId(a) = {} => CompleteOutcome(Browser, a, m) = "not_found"
               /\ \A x \in AppointmentWithId(a) :
                     x.doctor_id # DoctorId(Browser) =>
                        CompleteOutcome(Browser, a, m) = "unauthorized")
    /\ [][resp' \in {"unauthorized", "not_found"} =>
             (appointments' = appointments /\ treatments' = treatments)]_vars

\* A doctor has just been refused an appointment that exists.
C9_Witness ==
    /\ resp = "unauthorized"
    /\ Role(Browser) = "doctor"
    /\ \E x \in appointments : x.doctor_id # DoctorId(Browser)

\* C10: every Completed appointment has exactly one Treatment and every Booked
\* appointment has none.
C10_OneTreatmentPerCompletion ==
    \A a \in appointments :
        Cardinality({t \in treatments : t.appointment_id = a.id}) = IF Booked(a) THEN 0 ELSE 1

\* The appointment a became b in a step: its status either stayed, or went
\* from Booked to Completed in a completion answered to its owning doctor.
StatusStep(a, b) ==
    b.status # a.status =>
        /\ a.status = "Booked" /\ b.status = "Completed"
        /\ resp' = "completed"
        /\ Role(Browser) = "doctor"
        /\ a.doctor_id = DoctorId(Browser)

\* C11: a status changes only from Booked to Completed and only in a POST to
\* complete_appointment by the owning doctor: a GET never writes, every step
\* keeps each appointment with its status or completes it for its owner, a
\* Completed appointment stays Completed, and every new appointment is Booked.
C11_StatusOnlyBookedToCompleted ==
    /\ [](\A a \in AppointmentIds : CompleteOutcome(Browser, a, "GET") # "completed")
    /\ [][/\ \A a \in appointments :
                \E b \in appointments' : b.id = a.id /\ StatusStep(a, b)
          /\ \A a \in appointments, b \in appointments' :
                (b.id = a.id /\ a.status = "Completed") => b.status = "Completed"
          /\ \A b \in appointments' :
                (~\E a \in appointments : a.id = b.id) => Booked(b)
          /\ resp' # "completed" =>
                \A a \in appointments : \E b \in appointments' :
                   b.id = a.id /\ b.status = a.status]_vars

\* The owning doctor has just completed one appointment while another is
\* still Booked.
C11_Witness ==
    /\ resp = "completed"
    /\ \E a \in appointments, b \in appointments :
          a.status = "Completed" /\ Booked(b) /\ Role(Browser) = "doctor"

\* C12: a logged-in caller of the wrong role is turned away by add_doctor,
\* book_appointment and complete_appointment whatever the request holds, and
\* the step that turns a caller away leaves every table as it is.
C12_WrongRoleChangesNothing ==
    /\ [](Authenticated(Browser) =>
            /\ Role(Browser) # "admin" =>
                  \A u \in Usernames, e \in Emails, p \in PasswordTexts :
                     AddDoctorOutcome(Browser, u, e, p) = "denied"
            /\ Role(Browser) # "patient" =>
                  \A d \in DoctorIds, m \in Methods, s \in DtTexts, e \in DtTexts :
                     BookOutcome(Browser, d, m, s, e) = "denied"
            /\ Role(Browser) # "doctor" =>
                  \A a \in AppointmentIds, m \in Methods :
                     CompleteOutcome(Browser, a, m) = "denied")
    /\ [][resp' = "denied" => store' = store]_vars

\* A doctor or a patient has just been turned away while an appointment and a
\* treatment are on file.
C12_Witness ==
    /\ resp = "denied"
    /\ Role(Browser) \in {"doctor", "patient"}
    /\ appointments # {} /\ treatments # {}

\* Pairs of form texts that parse to datetimes a < b of one kind.
IntervalPairs ==
    {p \in DtTexts \X DtTexts :
        /\ parse_datetime(p[1]).ok /\ parse_datetime(p[2]).ok
        /\ Comparable(parse_datetime(p[1]), parse_datetime(p[2]))
        /\ Instant(parse_datetime(p[1])) < Instant(parse_datetime(p[2]))}

\* C13: for every doctor and every parseable interval [a, b), the conflict
\* query on the stored and the rendered texts answers as the test a < d and
\* c < b on the instants does against the doctor's Booked appointments [c, d).
C13_TextOrderIsInstantOrder ==
    \A d \in DoctorIds : \A p \in IntervalPairs :
        Conflict(d, strftime(parse_datetime(p[1])), strftime(parse_datetime(p[2])))
           <=> OverlapsBooked(d, parse_datetime(p[1]), parse_datetime(p[2]))

\* A Completed appointment [c, d) of the doctor with a < d and c < b.
OverlapsCompleted(doctor_id, a, b) ==
    \E x \in appointments :
        /\ x.doctor_id = doctor_id /\ x.status = "Completed"
        /\ Instant(a) < StoredInstant(x.end_datetime)
        /\ StoredInstant(x.start_datetime) < Instant(b)

====
